---- MODULE Spec2Model ----
(***************************************************************************)
(* The graph file store of caeost/graphfileystem (graph_filesystem.go, the *)
(* refs/lookerup revision): a compressed trie over file contents with a    *)
(* name -> path index, reference counted nodes, and a cleanup goroutine    *)
(* started by Delete.                                                      *)
(*                                                                         *)
(* The Go heap is modelled explicitly.  `nodes` is the heap of *node       *)
(* objects (a node is named by its index, Root is the node made by New),   *)
(* `arrays` is the heap of backing arrays of the path slices ([]byte), and *)
(* a path is a slice header [arr, len] into it, so that two names that     *)
(* share one backing array (Copy, insertPath's append) see each other's    *)
(* writes exactly as in Go.  Node values and child maps are modelled by    *)
(* value.                                                                  *)
(***************************************************************************)
EXTENDS Integers, Sequences, FiniteSets, TLC

(***************************************************************************)
(* Bounds of the exploration.                                              *)
(***************************************************************************)
\* largest content length the free caller supplies
MaxLen == 2
\* number of successful operations the caller issues after the constructor
MaxOps == 2
\* largest number of entries of the constructor's input map
MaxInput == 2

\* largest number of entries of the input map of a strict store
MaxStrictInput == 1

\* capacity Go's append gives a []byte grown from capacity 0 (one size class)
AppendCap == 8

Names == {"x", "y", "z"}
Alphabet == {"a", "b"}
\* the zero byte of make([]byte, n) and of append(*path, 0)
Zero == "0"
Nil == 0
Root == 1

Contents == UNION {[1..n -> Alphabet] : n \in 0..MaxLen}

Min(a, b) == IF a < b THEN a ELSE b

(***************************************************************************)
(* Slices of bytes: a header [arr, len]; arr = 0 is the empty literal      *)
(* []byte{} (capacity 0).                                                  *)
(***************************************************************************)
EmptySlice == [arr |-> 0, len |-> 0]

\* the bytes a slice header currently denotes
PathSeq(A, h) == IF h.arr = 0 THEN << >> ELSE SubSeq(A[h.arr].cells, 1, h.len)

\* append(s, x): in place when the capacity allows, else a new backing array
AppendSlice(A, h, x) ==
    IF h.arr # 0 /\ h.len < A[h.arr].cap
    THEN [arrays |-> [A EXCEPT ![h.arr].cells =
                         IF h.len < Len(@) THEN [@ EXCEPT ![h.len + 1] = x]
                                           ELSE Append(@, x)],
          hdr |-> [arr |-> h.arr, len |-> h.len + 1]]
    ELSE [arrays |-> Append(A, [cap |-> IF h.arr = 0 THEN AppendCap
                                                    ELSE 2 * A[h.arr].cap,
                                cells |-> Append(PathSeq(A, h), x)]),
          hdr |-> [arr |-> Len(A) + 1, len |-> h.len + 1]]

\* insertPath: p := append(*path, 0); copy(p[at+1:], p[at:]); p[at] = value
insertPath(A, h, at, value) ==
    LET app == AppendSlice(A, h, Zero)
        p == app.hdr
        cells == app.arrays[p.arr].cells
        shifted == [i \in 1..Len(cells) |->
                      IF i = at + 1 THEN value
                      ELSE IF i > at + 1 /\ i <= p.len THEN cells[i - 1]
                      ELSE cells[i]]
    IN [arrays |-> [app.arrays EXCEPT ![p.arr].cells = shifted], hdr |-> p]

(***************************************************************************)
(* The mock byte source of the tests, read one byte at a time.             *)
(***************************************************************************)
NewMockFile(contents) ==
    [Kind |-> "mockfile", Contents |-> contents, Length |-> Len(contents),
     Cursor |-> 0]

\* an io.Reader that returns io.EOF only on a call that yields no byte
NewLateFile(contents) ==
    [Kind |-> "late", Contents |-> contents, Length |-> Len(contents),
     Cursor |-> 0]

\* an io.Reader that yields the first `yielded` bytes of its contents and
\* then fails with an error that is not io.EOF
NewBrokenFile(contents, yielded) ==
    [Kind |-> "broken", Contents |-> contents, Length |-> yielded,
     Cursor |-> 0]

\* end index computed by mockfile.Read for a one byte buffer
ReadEnd(f) == Min(f.Cursor + 1, f.Length)
\* n, the number of bytes Read copies
ReadN(f) == ReadEnd(f) - f.Cursor
\* err: io.EOF exactly when end == Length
ReadEOF(f) == ReadEnd(f) = f.Length
\* err of any of the readers: "nil", "EOF" or "failed"
ReadErr(f) ==
    IF f.Kind = "mockfile" THEN (IF ReadEOF(f) THEN "EOF" ELSE "nil")
    ELSE IF ReadN(f) > 0 THEN "nil"
    ELSE IF f.Kind = "late" THEN "EOF" ELSE "failed"
\* a loop that stops at any error, even one that comes with a byte
LoopEndsOnError(f) == ReadN(f) = 0 \/ ReadErr(f) # "nil"

\* the read loop stops: the negation of nread != 0 || err == nil
LoopEnds(f) == ReadN(f) = 0 /\ ReadErr(f) # "nil"
ReadByte(f) == f.Contents[f.Cursor + 1]
ReadAdvance(f) == [f EXCEPT !.Cursor = @ + 1]

VARIABLES
    nodes,      \* heap of nodes: [value, refs, children]
    arrays,     \* heap of path backing arrays: [cap, cells]
    lookup,     \* i.lookup: name -> [path (slice header), length]
    strict,     \* i.strict
    call,       \* the caller: idle, or inside Insert with its locals
    cleanups,   \* running cleanup goroutines, with their locals
    sendq,      \* goroutines blocked in Cleaned <- true (TRUE: panicking)
    crashed,    \* the process died of a panic
    old,        \* the store when the caller issued its latest operation
    hist,       \* the operations the caller has issued so far
    script      \* the operations a scripted caller still has to issue

vars == <<nodes, arrays, lookup, strict, call, cleanups, sendq, crashed,
          old, hist, script>>

Idle == [pc |-> "idle"]

NewNode(value, refs, children) ==
    [value |-> value, refs |-> refs, children |-> children]

\* the empty child map
NoChildren == << >>

\* the store a constructor makes before it inserts its input
New ==
    /\ nodes = << NewNode(<< >>, 0, NoChildren) >>
    /\ arrays = << >>
    /\ lookup = << >>
    /\ call = Idle
    /\ cleanups = << >>
    /\ sendq = << >>
    /\ crashed = FALSE
    /\ old = [nodes |-> nodes, arrays |-> arrays, lookup |-> lookup]
    /\ hist = << >>

Cur == [nodes |-> nodes, arrays |-> arrays, lookup |-> lookup]

SetStore(S) ==
    /\ nodes' = S.nodes
    /\ arrays' = S.arrays
    /\ lookup' = S.lookup

(***************************************************************************)
(* Path index and correction.                                              *)
(***************************************************************************)
\* the names whose recorded path starts with `path` (bounds checked)
partialFind(A, L, path) ==
    {name \in DOMAIN L :
        LET pat == PathSeq(A, L[name].path)
        IN \A k \in 1..Len(path) : k <= Len(pat) /\ pat[k] = path[k]}

\* the loop over users in splitNode: every user's path gets `expected` at `at`
RECURSIVE CorrectPaths(_, _, _, _, _)
CorrectPaths(A, L, users, at, expected) ==
    IF users = {} THEN [arrays |-> A, lookup |-> L]
    ELSE LET name == CHOOSE u \in users : TRUE
             r == insertPath(A, L[name].path, at, expected)
         IN CorrectPaths(r.arrays, [L EXCEPT ![name].path = r.hdr],
                         users \ {name}, at, expected)

\* splitNode(n, at, path): cut n's value at `at` (0-based), push the tail and
\* n's children and refs into a new child keyed by the first byte of the tail
splitNode(S, n, at, path) ==
    LET N == S.nodes
        expected == N[n].value[at + 1]
        child == NewNode(SubSeq(N[n].value, at + 1, Len(N[n].value)),
                         N[n].refs, N[n].children)
        N1 == Append([N EXCEPT ![n] = NewNode(SubSeq(N[n].value, 1, at),
                                              N[n].refs,
                                              expected :> (Len(N) + 1))],
                     child)
        users == partialFind(S.arrays, S.lookup, PathSeq(S.arrays, path))
        fixed == CorrectPaths(S.arrays, S.lookup, users, path.len, expected)
    IN [nodes |-> N1, arrays |-> fixed.arrays, lookup |-> fixed.lookup]

(***************************************************************************)
(* Get: contents of a name, [ok, panic, contents].                         *)
(***************************************************************************)
NotFound == [ok |-> FALSE, panic |-> FALSE, contents |-> << >>]
Panic == [ok |-> FALSE, panic |-> TRUE, contents |-> << >>]

\* copy(result[cursor:], value)
CopyInto(result, cursor, value) ==
    [i \in 1..Len(result) |->
        IF i > cursor /\ i - cursor <= Len(value) THEN value[i - cursor]
        ELSE result[i]]

RECURSIVE GetWalk(_, _, _, _, _, _)
GetWalk(N, p, k, n, cursor, result) ==
    IF k = Len(p) THEN [ok |-> TRUE, panic |-> FALSE, contents |-> result]
    ELSE IF p[k + 1] \notin DOMAIN N[n].children THEN Panic
    ELSE IF cursor > Len(result) THEN Panic
    ELSE LET c == N[n].children[p[k + 1]]
         IN GetWalk(N, p, k + 1, c, cursor + Len(N[c].value),
                    CopyInto(result, cursor, N[c].value))

GetOf(S, target) ==
    IF target \notin DOMAIN S.lookup THEN NotFound
    ELSE LET l == S.lookup[target]
             zeros == [i \in 1..l.length |-> Zero]
         IN GetWalk(S.nodes, PathSeq(S.arrays, l.path), 0, Root,
                    Len(S.nodes[Root].value),
                    CopyInto(zeros, 0, S.nodes[Root].value))

Get(target) == GetOf(Cur, target)

(***************************************************************************)
(* Insert.                                                                 *)
(***************************************************************************)
\* a cleanup goroutine at its start: go i.cleanup(*lookup.path)
NewCleanup(path) ==
    [path |-> path, k |-> 0, parent |-> Nil, n |-> Root, v |-> Zero]

Without(f, key) == [k \in DOMAIN f \ {key} |-> f[k]]

\* every cleanup goroutine started so far has run its body to the end
Quiet == cleanups = << >>

CanCall == call.pc = "idle" /\ ~crashed /\ Quiet

Request(op, name, arg, src) ==
    [op |-> op, name |-> name, arg |-> arg, src |-> src]

\* how hist names a call of op that returned false
Refused(op) == op \o " = false"

\* the head of Insert: overwrite means Delete first, then the locals
InsertFrom(name, file) ==
    /\ CanCall
    /\ old' = Cur
    /\ hist' = Append(hist, Request("Insert", name, "", file.Contents))
    /\ IF name \in DOMAIN lookup
       THEN /\ lookup' = Without(lookup, name)
            /\ cleanups' = Append(cleanups, NewCleanup(lookup[name].path))
       ELSE UNCHANGED <<lookup, cleanups>>
    /\ call' = [pc |-> "loop", name |-> name, file |-> file,
                current |-> Root, cursor |-> 0, path |-> EmptySlice,
                length |-> 0]
    /\ UNCHANGED <<nodes, arrays, strict, sendq, crashed>>

\* Insert(name, NewMockFile(src))
InsertBegin(name, src) == InsertFrom(name, NewMockFile(src))

\* one pass of the read loop that got a byte b
ProcessByte(S, c, b) ==
    LET N == S.nodes
        cur == c.current
    IN IF N[cur].refs = 0
       THEN [store |-> [S EXCEPT !.nodes[cur].value = Append(@, b)],
             call |-> [c EXCEPT !.cursor = @ + 1]]
       ELSE IF c.cursor < Len(N[cur].value) /\ b = N[cur].value[c.cursor + 1]
       THEN [store |-> S, call |-> [c EXCEPT !.cursor = @ + 1]]
       ELSE IF b \in DOMAIN N[cur].children
       THEN LET app == AppendSlice(S.arrays, c.path, b)
            IN [store |-> [S EXCEPT !.nodes[cur].refs = @ + 1,
                                    !.arrays = app.arrays],
                call |-> [c EXCEPT !.cursor = 1, !.path = app.hdr,
                                   !.current = N[cur].children[b]]]
       ELSE LET S1 == IF c.cursor < Len(N[cur].value)
                      THEN splitNode(S, cur, c.cursor, c.path)
                      ELSE S
                id == Len(S1.nodes) + 1
                N2 == Append([S1.nodes EXCEPT
                                 ![cur].children = (b :> id) @@ @,
                                 ![cur].refs = @ + 1],
                             NewNode(<<b>>, 0, NoChildren))
                app == AppendSlice(S1.arrays, c.path, b)
            IN [store |-> [nodes |-> N2, arrays |-> app.arrays,
                           lookup |-> S1.lookup],
                call |-> [c EXCEPT !.cursor = 0, !.path = app.hdr,
                                   !.current = id]]

InsertByte ==
    /\ call.pc = "loop"
    /\ ~crashed
    /\ ~LoopEnds(call.file)
    /\ ReadN(call.file) > 0
    /\ LET r == ProcessByte(Cur, [call EXCEPT !.length = @ + 1,
                                              !.file = ReadAdvance(@)],
                            ReadByte(call.file))
       IN /\ SetStore(r.store)
          /\ call' = r.call
    /\ UNCHANGED <<strict, cleanups, sendq, crashed, old, hist, script>>

\* FinishInsert without current.refs++
FinishInsertNoRef(S, c) ==
    LET S1 == IF c.cursor < Len(S.nodes[c.current].value)
              THEN splitNode(S, c.current, c.cursor, c.path)
              ELSE S
    IN [S1 EXCEPT !.lookup = (c.name :> [path |-> c.path, length |-> c.length])
                             @@ @]

\* after the loop: the final split, the terminal node's ref, the index entry
FinishInsert(S, c) ==
    LET S1 == IF c.cursor < Len(S.nodes[c.current].value)
              THEN splitNode(S, c.current, c.cursor, c.path)
              ELSE S
    IN [S1 EXCEPT !.nodes[c.current].refs = @ + 1,
                  !.lookup = (c.name :> [path |-> c.path, length |-> c.length])
                             @@ @]

InsertEnd ==
    /\ call.pc = "loop"
    /\ ~crashed
    /\ LoopEnds(call.file)
    /\ SetStore(FinishInsert(Cur, call))
    /\ call' = Idle
    /\ UNCHANGED <<strict, cleanups, sendq, crashed, old, hist, script>>

(***************************************************************************)
(* Copy, Delete and the cleanup goroutine.                                 *)
(***************************************************************************)
varsButScript == <<nodes, arrays, lookup, strict, call, cleanups, sendq,
                   crashed, old, hist>>

\* Copy's walk: n.refs++ then n = n.children[b], for every key of the path
RECURSIVE CopyWalk(_, _, _, _)
CopyWalk(N, p, k, n) ==
    IF k = Len(p) THEN [nodes |-> N, panic |-> FALSE]
    ELSE IF n = Nil THEN [nodes |-> N, panic |-> TRUE]
    ELSE CopyWalk([N EXCEPT ![n].refs = @ + 1], p, k + 1,
                  IF p[k + 1] \in DOMAIN N[n].children
                  THEN N[n].children[p[k + 1]] ELSE Nil)

\* Copy without the check of target == name
CopyOkSameName(target, name) == target \in DOMAIN lookup

\* the value Copy returns
CopyOk(target, name) == target # name /\ target \in DOMAIN lookup

Copy(target, name) ==
    /\ CanCall
    /\ IF ~CopyOk(target, name)
       THEN /\ old' = Cur
            /\ hist' = Append(hist, Request(Refused("Copy"), name, target,
                                            << >>))
            /\ UNCHANGED <<nodes, arrays, lookup, strict, call, cleanups,
                           sendq, crashed>>
       ELSE LET w == CopyWalk(nodes, PathSeq(arrays, lookup[target].path),
                              0, Root)
            IN /\ old' = Cur
               /\ hist' = Append(hist, Request("Copy", name, target, << >>))
               /\ lookup' = (name :> [path |-> lookup[target].path,
                                      length |-> lookup[target].length])
                            @@ lookup
               /\ nodes' = w.nodes
               /\ crashed' = w.panic
               /\ UNCHANGED <<arrays, strict, call, cleanups, sendq>>

\* the value Delete returns
DeleteOk(target) == target \in DOMAIN lookup

Delete(target) ==
    /\ CanCall
    /\ IF ~DeleteOk(target)
       THEN /\ old' = Cur
            /\ hist' = Append(hist, Request(Refused("Delete"), target, "",
                                            << >>))
            /\ UNCHANGED <<nodes, arrays, lookup, strict, call, cleanups,
                           sendq, crashed>>
       ELSE /\ old' = Cur
            /\ hist' = Append(hist, Request("Delete", target, "", << >>))
            /\ lookup' = Without(lookup, target)
            /\ cleanups' = Append(cleanups, NewCleanup(lookup[target].path))
            /\ UNCHANGED <<nodes, arrays, strict, call, sendq, crashed>>

RemoveAt(s, i) == SubSeq(s, 1, i - 1) \o SubSeq(s, i + 1, Len(s))

\* goroutine i returns (or panics): in a strict store its deferred function
\* first blocks in Cleaned <- true, and a panic goes on only after that
Leave(i, panicking) ==
    /\ cleanups' = RemoveAt(cleanups, i)
    /\ IF strict
       THEN sendq' = Append(sendq, panicking) /\ UNCHANGED crashed
       ELSE crashed' = panicking /\ UNCHANGED sendq

\* one pass of cleanup's loop over the path
CleanupStep(i) ==
    /\ ~crashed
    /\ cleanups[i].k < cleanups[i].path.len
    /\ LET g == cleanups[i]
           b == arrays[g.path.arr].cells[g.k + 1]
       IN IF g.n = Nil
          THEN Leave(i, TRUE) /\ UNCHANGED nodes
          ELSE /\ nodes' = [nodes EXCEPT ![g.n].refs = @ - 1]
               /\ cleanups' = [cleanups EXCEPT ![i] =
                      [g EXCEPT !.k = @ + 1, !.v = b, !.parent = g.n,
                                !.n = IF b \in DOMAIN nodes[g.n].children
                                      THEN nodes[g.n].children[b] ELSE Nil]]
               /\ UNCHANGED <<sendq, crashed>>
    /\ UNCHANGED <<arrays, lookup, strict, call, old, hist, script>>

\* cleanup that leaves the graph as it finds it
RemoveNothing(N, g) == N

\* cleanup after its loop: drop the terminal node, maybe heal the parent
RemoveAndHeal(N, g) ==
    IF N[g.n].refs = 1 /\ g.parent # Nil
    THEN LET kids == Without(N[g.parent].children, g.v)
             N1 == [N EXCEPT ![g.parent].children = kids]
         IN IF Cardinality(DOMAIN kids) = 1
            THEN LET child == kids[CHOOSE b \in DOMAIN kids : TRUE]
                 IN IF N1[g.parent].refs = N1[child].refs
                    THEN [N1 EXCEPT ![g.parent].children = N1[child].children,
                                    ![g.parent].value = @ \o N1[child].value]
                    ELSE N1
            ELSE N1
    ELSE N

CleanupEnd(i) ==
    /\ ~crashed
    /\ cleanups[i].k = cleanups[i].path.len
    /\ IF cleanups[i].n = Nil
       THEN Leave(i, TRUE) /\ UNCHANGED nodes
       ELSE Leave(i, FALSE) /\ nodes' = RemoveAndHeal(nodes, cleanups[i])
    /\ UNCHANGED <<arrays, lookup, strict, call, old, hist, script>>

\* the caller's <-gfs.Cleaned
Receive ==
    /\ call.pc = "idle"
    /\ ~crashed
    /\ strict
    /\ sendq # << >>
    /\ sendq' = Tail(sendq)
    /\ crashed' = Head(sendq)
    /\ hist' = Append(hist, Request("Receive", "", "", << >>))
    /\ UNCHANGED <<nodes, arrays, lookup, strict, call, cleanups, old>>

(***************************************************************************)
(* New(input) / NewStrict(input): the constructor inserts its input map in *)
(* the order the map's iteration happens to give.                          *)
(***************************************************************************)
Entry(name, src) == [name |-> name, src |-> src]

Construct ==
    \E e \in script.input :
        /\ InsertBegin(e.name, e.src)
        /\ script' = [script EXCEPT !.input = @ \ {e}, !.built = @ + 1]

\* the constructor has returned
Built == script.input = {}

(***************************************************************************)
(* Spec: a store built by New from a small input map, then a caller that   *)
(* issues any operation, each after the cleanups started before it have    *)
(* run their bodies to the end.                                            *)
(***************************************************************************)
Inputs ==
    UNION {{{Entry(n, f[n]) : n \in S} : f \in [S -> Contents]} :
             S \in {T \in SUBSET Names : Cardinality(T) <= MaxInput}}

Init ==
    /\ New
    /\ strict = FALSE
    /\ \E input \in Inputs : script = [input |-> input, built |-> 0,
                                       rest |-> << >>]

More == Built /\ Len(hist) - script.built < MaxOps

Next ==
    \/ Construct
    \/ \E name \in Names, src \in Contents :
          More /\ InsertBegin(name, src) /\ UNCHANGED script
    \/ InsertByte
    \/ InsertEnd
    \/ \E target \in Names, name \in Names :
          More /\ Copy(target, name) /\ UNCHANGED script
    \/ \E target \in Names : More /\ Delete(target) /\ UNCHANGED script
    \/ \E i \in 1..Len(cleanups) : CleanupStep(i)
    \/ \E i \in 1..Len(cleanups) : CleanupEnd(i)

Spec == Init /\ [][Next]_vars

(***************************************************************************)
(* SpecNew: the constructor alone, on every input map over Names.          *)
(***************************************************************************)
AllInputs ==
    UNION {{{Entry(n, f[n]) : n \in S} : f \in [S -> Contents]} :
             S \in SUBSET Names}

InitNew ==
    /\ New
    /\ strict \in BOOLEAN
    /\ \E input \in AllInputs : script = [input |-> input, built |-> 0,
                                          rest |-> << >>]

NextNew == Construct \/ InsertByte \/ InsertEnd

SpecNew == InitNew /\ [][NextNew]_vars

(***************************************************************************)
(* SpecTests: the repository's tests as callers.                           *)
(***************************************************************************)
abc == <<"a", "b", "c">>

\* TestReadFiles (gfs_test.go)
ReadFilesInput ==
    {Entry("abc", abc), Entry("abb", <<"a">>), Entry("aaa", <<"a", "a", "a">>),
     Entry("aaaa", <<"a", "a", "a", "a", "a">>), Entry("ooo", abc)}

\* TestReadFiles as first written, with abb holding "abb"
ReadFilesInput0 ==
    {Entry("abc", abc), Entry("abb", <<"a", "b", "b">>),
     Entry("aaa", <<"a", "a", "a">>),
     Entry("aaaa", <<"a", "a", "a", "a", "a">>), Entry("ooo", abc)}

\* TestDeleteFile
DeleteFileInput == {Entry("abc", abc), Entry("abb", <<"a">>)}
DeleteFileRest == <<Request("Delete", "abc", "", << >>),
                    Request("Receive", "", "", << >>)>>

TestCases ==
    {[strict |-> FALSE, input |-> ReadFilesInput, rest |-> << >>],
     [strict |-> FALSE, input |-> ReadFilesInput0, rest |-> << >>],
     [strict |-> TRUE, input |-> DeleteFileInput, rest |-> DeleteFileRest]}

InitTests ==
    /\ New
    /\ \E t \in TestCases :
          /\ strict = t.strict
          /\ script = [input |-> t.input, built |-> 0, rest |-> t.rest]

\* the test body's next statement
Step(op) == Built /\ script.rest # << >> /\ Head(script.rest).op = op

Stepped == script' = [script EXCEPT !.rest = Tail(@)]

NextTests ==
    \/ Construct
    \/ InsertByte
    \/ InsertEnd
    \/ Step("Delete") /\ Delete(Head(script.rest).name) /\ Stepped
    \/ Step("Receive") /\ Receive /\ Stepped
    \/ \E i \in 1..Len(cleanups) : CleanupStep(i)
    \/ \E i \in 1..Len(cleanups) : CleanupEnd(i)

SpecTests == InitTests /\ [][NextTests]_vars

(***************************************************************************)
(* Vocabulary of the properties.                                           *)
(***************************************************************************)
\* the node reached from the root by the first k keys of p, Nil if a key is
\* no child key on the way
RECURSIVE NodeAt(_, _, _)
NodeAt(N, p, k) ==
    IF k = 0 THEN Root
    ELSE LET m == NodeAt(N, p, k - 1)
         IN IF m = Nil \/ p[k] \notin DOMAIN N[m].children THEN Nil
            ELSE N[m].children[p[k]]

PathOf(S, name) == PathSeq(S.arrays, S.lookup[name].path)

\* the nodes the recorded path of a name visits, the root included
NodesOf(S, name) ==
    {NodeAt(S.nodes, PathOf(S, name), k) : k \in 0..Len(PathOf(S, name))}
        \ {Nil}

\* every key of the recorded path is a child key where it is used
PathExists(S, name) ==
    NodeAt(S.nodes, PathOf(S, name), Len(PathOf(S, name))) # Nil

\* the names whose recorded path visits node n
Dependents(S, n) == {m \in DOMAIN S.lookup : n \in NodesOf(S, m)}

RECURSIVE Closure(_, _)
Closure(N, seen) ==
    LET more == UNION {{N[n].children[b] : b \in DOMAIN N[n].children} :
                         n \in seen}
    IN IF more \subseteq seen THEN seen ELSE Closure(N, seen \cup more)

\* the nodes of the graph: those reachable from the root
Graph(N) == Closure(N, {Root})

Found(contents) == [ok |-> TRUE, panic |-> FALSE, contents |-> contents]

Last(s) == s[Len(s)]

\* every operation issued so far has completed, its cleanup included
Settled == call.pc = "idle" /\ cleanups = << >> /\ ~crashed

OnlyInserts == \A i \in 1..Len(hist) : hist[i].op = "Insert"

\* the bytes supplied to the last Insert under a name
Supplied(name) ==
    hist[CHOOSE i \in 1..Len(hist) :
            /\ hist[i].op = "Insert" /\ hist[i].name = name
            /\ \A j \in (i + 1)..Len(hist) :
                  ~(hist[j].op = "Insert" /\ hist[j].name = name)].src

\* name is indexed once the first i operations of hist have been issued
IndexedAfter(i, name) ==
    \E j \in 1..i :
        /\ hist[j].op \in {"Insert", "Copy"} /\ hist[j].name = name
        /\ \A k \in (j + 1)..i :
              ~(hist[k].op = "Delete" /\ hist[k].name = name)

\* the nodes the recorded path of a name visits, in order
Visits(S, name) ==
    [k \in 1..(Len(PathOf(S, name)) + 1) |->
        NodeAt(S.nodes, PathOf(S, name), k - 1)]

RECURSIVE Bytes(_, _)
\* the sum of the value lengths of a set of nodes
Bytes(N, ns) ==
    IF ns = {} THEN 0
    ELSE LET n == CHOOSE m \in ns : TRUE
         IN Len(N[n].value) + Bytes(N, ns \ {n})

\* the constructor ran on exactly this input map and has returned
BuiltFrom(input) ==
    /\ call.pc = "idle"
    /\ Len(hist) >= Cardinality(input)
    /\ {Entry(hist[i].name, hist[i].src) : i \in 1..Cardinality(input)} = input

(***************************************************************************)
(* The claims.                                                             *)
(***************************************************************************)

\* C1: round trip. After any sequence of Insert calls, Get(name) of every
\* indexed name returns exactly the bytes supplied to the last Insert under
\* that name.
C1_RoundTrip ==
    (Settled /\ OnlyInserts) =>
        \A name \in DOMAIN lookup : Get(name) = Found(Supplied(name))

\* C2: path/graph consistency. Once every operation issued has completed,
\* cleanup included, every key of every indexed name's path is an existing
\* child key of the node reached by the keys before it.
C2_PathsExist ==
    Settled => \A name \in DOMAIN lookup : PathExists(Cur, name)

\* this step of Insert calls splitNode on the node it stands on
InsertSplits ==
    /\ call.pc = "loop"
    /\ call' # call
    /\ call.cursor < Len(nodes[call.current].value)
    /\ \/ ReadN(call.file) = 0
       \/ /\ nodes[call.current].refs # 0
          /\ ReadByte(call.file) # nodes[call.current].value[call.cursor + 1]
          /\ ReadByte(call.file) \notin DOMAIN nodes[call.current].children

\* C3: path correction. When an Insert of name B splits a node that the
\* path of another indexed name A traverses, Get(A) returns the same after
\* the split as before it.
C3_SplitKeepsOthers ==
    [][InsertSplits =>
         \A A \in DOMAIN lookup :
            call.current \in NodesOf(Cur, A) => Get(A)' = Get(A)]_vars

\* C4: Delete leaves survivors intact. After a Delete and its completed
\* cleanup, Get of every other indexed name returns what it returned before
\* the Delete.
C4_DeleteKeepsOthers ==
    (Settled /\ hist # << >> /\ Last(hist).op = "Delete") =>
        \A y \in DOMAIN lookup : Get(y) = GetOf(old, y)

\* C5: Copy aliasing. After Copy(a, b) into a new name b returned true and
\* Delete(a) and its cleanup completed, Get(b) succeeds and returns the
\* content a had.
C5_CopySurvivesDelete ==
    (/\ Settled
     /\ Len(hist) >= 2
     /\ Last(hist).op = "Delete"
     /\ hist[Len(hist) - 1].op = "Copy"
     /\ hist[Len(hist) - 1].arg = Last(hist).name
     /\ ~IndexedAfter(Len(hist) - 2, hist[Len(hist) - 1].name)) =>
        LET b == hist[Len(hist) - 1].name
        IN Get(b).ok /\ Get(b) = GetOf(old, Last(hist).name)

\* C6: refcount equals dependents after inserts. After the constructor has
\* inserted any number of distinct names, every node of the graph, the ones
\* made by a split included, has refs equal to the number of indexed names
\* whose path passes through or ends at it.
C6_RefsAreDependents ==
    (call.pc = "idle" /\ OnlyInserts) =>
        \A n \in Graph(nodes) :
            nodes[n].refs = Cardinality(Dependents(Cur, n))

\* three names share the root, two of them a node made under it
C6_Shared ==
    /\ call.pc = "idle"
    /\ Cardinality(DOMAIN lookup) = 3
    /\ \E n \in 2..Len(nodes) :
          /\ nodes[n].refs = 2
          /\ Cardinality(Dependents(Cur, n)) = 2
    /\ nodes[Root].refs = 3

\* C7: refcount release on delete. If a node on the deleted name's path was
\* shared by N indexed names and counted N, then after the Delete and its
\* completed cleanup the node, if still in the graph, counts N - 1.
C7_DeleteReleases ==
    (Settled /\ hist # << >> /\ Last(hist).op = "Delete") =>
        \A n \in NodesOf(old, Last(hist).name) :
            (/\ old.nodes[n].refs = Cardinality(Dependents(old, n))
             /\ n \in Graph(nodes)) =>
                nodes[n].refs = Cardinality(Dependents(old, n)) - 1

\* C8: deletion scenario. A strict store built from {abc: "abc", abb: "a"}
\* in either order has 2 index entries; after Delete("abc") it has 1, and
\* once the completion signal was received the root has refs 1, no children
\* and value "a", and Get("abb") returns "a".
C8_DeleteFile ==
    (strict /\ BuiltFrom(DeleteFileInput)) =>
        /\ Len(hist) = 2 => Cardinality(DOMAIN lookup) = 2
        /\ Len(hist) >= 3 => Cardinality(DOMAIN lookup) = 1
        /\ Len(hist) = 4 =>
              /\ ~crashed
              /\ nodes[Root].refs = 1
              /\ DOMAIN nodes[Root].children = {}
              /\ nodes[Root].value = <<"a">>
              /\ Get("abb") = Found(<<"a">>)

\* the test has received the completion signal, abb having been inserted first
C8_Received ==
    /\ strict
    /\ BuiltFrom(DeleteFileInput)
    /\ hist[1].name = "abb"
    /\ Len(hist) = 4
    /\ hist[3] = Request("Delete", "abc", "", << >>)
    /\ hist[4].op = "Receive"

\* C9: the five name scenario. A store built from abc -> "abc", abb -> "a",
\* aaa -> "aaa", aaaa -> "aaaaa", ooo -> "abc" in any order has 5 index
\* entries, Get("abb") = "a", Get("aaaa") = "aaaaa", Get("ooo") = "abc", and
\* the path of ooo visits the same nodes as the path of abc.
C9_ReadFiles ==
    (~strict /\ BuiltFrom(ReadFilesInput) /\ Len(hist) = 5) =>
        /\ Cardinality(DOMAIN lookup) = 5
        /\ Get("abb") = Found(<<"a">>)
        /\ Get("aaaa") = Found(<<"a", "a", "a", "a", "a">>)
        /\ Get("ooo") = Found(abc)
        /\ Visits(Cur, "ooo") = Visits(Cur, "abc")

\* C10: prefix sharing. Inserting "abc" and then "abb" into an empty store
\* gives a root with value "ab" and exactly two children, keyed c and b, with
\* values "c" and "b" and no children; the graph stores 4 bytes.
C10_PrefixSharing ==
    (/\ call.pc = "idle"
     /\ hist = <<Request("Insert", "abc", "", abc),
                 Request("Insert", "abb", "", <<"a", "b", "b">>)>>) =>
        /\ nodes[Root].value = <<"a", "b">>
        /\ DOMAIN nodes[Root].children = {"c", "b"}
        /\ \A k \in {"c", "b"} :
              /\ nodes[nodes[Root].children[k]].value = <<k>>
              /\ DOMAIN nodes[nodes[Root].children[k]].children = {}
        /\ Bytes(nodes, Graph(nodes)) = 4

(***************************************************************************)
(* Whole calls as functions of the store, for comparing a store with the   *)
(* one a different sequence of calls would have made.                      *)
(***************************************************************************)
EmptyStore ==
    [nodes |-> << NewNode(<< >>, 0, NoChildren) >>, arrays |-> << >>,
     lookup |-> << >>]

RECURSIVE InsertLoop(_, _)
\* the read loop from its current position to the end of Insert
InsertLoop(S, c) ==
    IF LoopEnds(c.file) THEN FinishInsert(S, c)
    ELSE LET r == ProcessByte(S, [c EXCEPT !.length = @ + 1,
                                           !.file = ReadAdvance(@)],
                              ReadByte(c.file))
         IN InsertLoop(r.store, r.call)

\* Insert(name, file) of a name that is not indexed, run without interruption
InsertInto(S, name, src) ==
    InsertLoop(S, [pc |-> "loop", name |-> name, file |-> NewMockFile(src),
                   current |-> Root, cursor |-> 0, path |-> EmptySlice,
                   length |-> 0])

RECURSIVE InsertAll(_, _)
\* the Inserts of a sequence of hist entries, one after the other
InsertAll(S, entries) ==
    IF entries = << >> THEN S
    ELSE InsertAll(InsertInto(S, Head(entries).name, Head(entries).src),
                   Tail(entries))

\* hist starts with k Inserts of k different names
DistinctInserts(k) ==
    /\ k <= Len(hist)
    /\ \A i \in 1..k : hist[i].op = "Insert"
    /\ \A i, j \in 1..k : hist[i].name = hist[j].name => i = j

\* C11: healing equivalence. After inserting a set of files and deleting one
\* of them (cleanup and healing completed), every surviving name reads as in
\* a store built from the surviving files alone; after re-inserting the
\* deleted name with the same content every name reads as in a store built
\* from the whole set.
C11_HealingEquivalence ==
    /\ (/\ Settled
        /\ Len(hist) >= 2
        /\ DistinctInserts(Len(hist) - 1)
        /\ Last(hist).op = "Delete") =>
            LET rest == SelectSeq(SubSeq(hist, 1, Len(hist) - 1),
                                  LAMBDA h : h.name # Last(hist).name)
            IN \A y \in DOMAIN lookup :
                  Get(y) = GetOf(InsertAll(EmptyStore, rest), y)
    /\ (/\ Settled
        /\ Len(hist) >= 3
        /\ DistinctInserts(Len(hist) - 2)
        /\ hist[Len(hist) - 1].op = "Delete"
        /\ Last(hist).op = "Insert"
        /\ \E i \in 1..(Len(hist) - 2) :
              /\ hist[i].name = Last(hist).name
              /\ hist[i].src = Last(hist).src
        /\ Last(hist).name = hist[Len(hist) - 1].name) =>
            \A y \in DOMAIN lookup :
                Get(y) = GetOf(InsertAll(EmptyStore,
                                         SubSeq(hist, 1, Len(hist) - 2)), y)

RECURSIVE RunCleanup(_, _, _)
\* cleanup(path) run without interruption: [nodes, panic]
RunCleanup(N, A, g) ==
    IF g.n = Nil THEN [nodes |-> N, panic |-> TRUE]
    ELSE IF g.k < g.path.len
    THEN LET b == A[g.path.arr].cells[g.k + 1]
         IN RunCleanup([N EXCEPT ![g.n].refs = @ - 1], A,
                       [g EXCEPT !.k = @ + 1, !.v = b, !.parent = g.n,
                                 !.n = IF b \in DOMAIN N[g.n].children
                                       THEN N[g.n].children[b] ELSE Nil])
    ELSE [nodes |-> RemoveAndHeal(N, g), panic |-> FALSE]

\* Delete(name) and its cleanup run to the end before anything else
DeleteFrom(S, name) ==
    LET d == RunCleanup(S.nodes, S.arrays, NewCleanup(S.lookup[name].path))
    IN [store |-> [nodes |-> d.nodes, arrays |-> S.arrays,
                   lookup |-> Without(S.lookup, name)],
        panic |-> d.panic]

RECURSIVE Shape(_, _)
\* the graph under node n: values, refs and children, without node identity
Shape(N, n) ==
    [value |-> N[n].value, refs |-> N[n].refs,
     children |-> [b \in DOMAIN N[n].children |->
                     Shape(N, N[n].children[b])]]

\* the path index as the caller can observe it
Index(S) ==
    [name \in DOMAIN S.lookup |->
        [path |-> PathOf(S, name), length |-> S.lookup[name].length]]

\* C12: overwrite is a full Delete first. Insert(name, src) on an indexed
\* name ends, however the cleanup it starts is interleaved with it, in the
\* node graph and path index that Delete(name) with its cleanup completed,
\* followed by Insert(name, src), gives.
C12_OverwriteIsDeleteFirst ==
    (/\ call.pc = "idle"
     /\ cleanups = << >>
     /\ hist # << >>
     /\ Last(hist).op = "Insert"
     /\ Last(hist).name \in DOMAIN old.lookup
     /\ ~DeleteFrom(old, Last(hist).name).panic) =>
        LET seq == InsertInto(DeleteFrom(old, Last(hist).name).store,
                              Last(hist).name, Last(hist).src)
        IN /\ ~crashed
           /\ Shape(nodes, Root) = Shape(seq.nodes, Root)
           /\ Index(Cur) = Index(seq)

(***************************************************************************)
(* SpecStrict: a store built by NewStrict from a small input map, then a   *)
(* caller that issues any operation or receives from Cleaned.              *)
(***************************************************************************)
StrictInputs ==
    UNION {{{Entry(n, f[n]) : n \in S} : f \in [S -> Contents]} :
             S \in {T \in SUBSET Names : Cardinality(T) <= MaxStrictInput}}

InitStrict ==
    /\ New
    /\ strict = TRUE
    /\ \E input \in StrictInputs : script = [input |-> input, built |-> 0,
                                             rest |-> << >>]

\* the calls issued after the constructor, receives from Cleaned not counted
Calls ==
    Cardinality({i \in 1..Len(hist) : hist[i].op # "Receive"}) - script.built

MoreStrict == Built /\ Calls < MaxOps

NextStrict ==
    \/ Construct
    \/ \E name \in Names, src \in Contents :
          MoreStrict /\ InsertBegin(name, src) /\ UNCHANGED script
    \/ InsertByte
    \/ InsertEnd
    \/ \E target \in Names, name \in Names :
          MoreStrict /\ Copy(target, name) /\ UNCHANGED script
    \/ \E target \in Names : MoreStrict /\ Delete(target) /\ UNCHANGED script
    \/ Built /\ Receive /\ UNCHANGED script
    \/ \E i \in 1..Len(cleanups) : CleanupStep(i)
    \/ \E i \in 1..Len(cleanups) : CleanupEnd(i)

SpecStrict == InitStrict /\ [][NextStrict]_vars

\* C13: strict completion signal. A caller of a strict store that calls
\* Delete(name) and then receives from Cleaned observes the graph with that
\* Delete's cleanup fully applied, whatever operations came before.
C13_SignalAfterCleanup ==
    (/\ strict
     /\ Len(hist) >= 2
     /\ Last(hist).op = "Receive"
     /\ hist[Len(hist) - 1].op = "Delete") =>
        LET d == DeleteFrom(old, hist[Len(hist) - 1].name)
        IN /\ cleanups = << >>
           /\ ~d.panic => (~crashed /\ nodes = d.store.nodes)

\* C14: Copy effect. When Copy(existing, new) succeeds, new is indexed with
\* the path and length of existing, Get(new) = Get(existing), the refs of
\* every node on that path, root and terminal node included, is one higher
\* than before, and nothing else of any node has changed.
C14_CopyEffect ==
    (/\ call.pc = "idle"
     /\ hist # << >>
     /\ Last(hist).op = "Copy"
     /\ Last(hist).name \notin DOMAIN old.lookup) =>
        LET existing == Last(hist).arg
            new == Last(hist).name
        IN /\ ~crashed
           /\ new \in DOMAIN lookup
           /\ Index(Cur)[new] = Index(old)[existing]
           /\ Get(new) = Get(existing)
           /\ Len(nodes) = Len(old.nodes)
           /\ \A n \in 1..Len(nodes) :
                 /\ nodes[n].value = old.nodes[n].value
                 /\ nodes[n].children = old.nodes[n].children
                 /\ nodes[n].refs = old.nodes[n].refs +
                        (IF n \in NodesOf(old, existing) THEN 1 ELSE 0)

\* the cleanup goroutines started so far: one for every successful Delete
\* and one for every Insert of a name that was indexed
Started ==
    Cardinality({i \in 1..Len(hist) :
                    \/ hist[i].op = "Delete"
                    \/ /\ hist[i].op = "Insert"
                       /\ IndexedAfter(i - 1, hist[i].name)})

\* the completion signals offered so far, received or not
Offered ==
    Len(sendq) + Cardinality({i \in 1..Len(hist) : hist[i].op = "Receive"})

\* the latest call is a Copy or a Delete that the claim says must fail
MustFail ==
    /\ hist # << >>
    /\ \/ /\ Last(hist).op \in {"Copy", Refused("Copy")}
          /\ \/ Last(hist).arg = Last(hist).name
             \/ Last(hist).arg \notin DOMAIN old.lookup
       \/ /\ Last(hist).op \in {"Delete", Refused("Delete")}
          /\ Last(hist).name \notin DOMAIN old.lookup

\* C15: failure leaves the store unchanged. Get, Copy and Delete of an absent
\* name and Copy onto the same name return failure, leave the path index and
\* every node unchanged, start no cleanup and send no completion signal.
C15_FailureChangesNothing ==
    /\ \A name \in Names \ DOMAIN lookup : Get(name) = NotFound
    /\ MustFail =>
          /\ Last(hist).op \in {Refused("Copy"), Refused("Delete")}
          /\ Cur = old
          /\ cleanups = << >>
    /\ ~crashed => Offered + Len(cleanups) = Started

\* a Copy onto its own name was refused in a strict store with a split graph
\* and a completion signal pending
C15_Refused ==
    /\ strict
    /\ hist # << >>
    /\ Last(hist).op = Refused("Copy")
    /\ Last(hist).arg = Last(hist).name
    /\ Last(hist).name \in DOMAIN lookup
    /\ Len(nodes) > 1
    /\ sendq # << >>

(***************************************************************************)
(* SpecRead: Inserts of new names from every kind of byte source.          *)
(* SpecReadFair adds that the goroutine inside Insert keeps running.       *)
(***************************************************************************)
Readers ==
    {NewMockFile(c) : c \in Contents} \cup {NewLateFile(c) : c \in Contents}
    \cup UNION {{NewBrokenFile(c, k) : k \in 0..(Len(c) - 1)} : c \in Contents}

InitRead ==
    /\ New
    /\ strict = FALSE
    /\ script = [input |-> {}, built |-> 0, rest |-> << >>]

NextRead ==
    \/ \E name \in Names \ DOMAIN lookup, file \in Readers :
          Len(hist) < MaxOps /\ InsertFrom(name, file) /\ UNCHANGED script
    \/ InsertByte
    \/ InsertEnd

SpecRead == InitRead /\ [][NextRead]_vars

SpecReadFair == SpecRead /\ WF_vars(InsertByte) /\ WF_vars(InsertEnd)

\* Insert is in its loop on a source that does not fail
Reading == call.pc = "loop" /\ call.file.Kind # "broken"

\* C16: byte source consumption. From a source that yields one byte a call
\* and signals end-of-data with the last byte or on a later call, Insert
\* terminates, processes every byte once and in order, and records the number
\* of bytes yielded as length; for an empty source length 0 and empty content.
C16_SourceConsumed ==
    /\ [](Reading =>
            /\ call.length = call.file.Cursor
            /\ call.length <= Len(call.file.Contents)
            /\ Len(hist) = 1 =>
                  nodes[Root].value =
                      SubSeq(call.file.Contents, 1, call.length))
    /\ [][(Reading /\ call'.pc = "idle") =>
            /\ call.length = Len(call.file.Contents)
            /\ lookup'[call.name].length = Len(call.file.Contents)
            /\ \A name \in {call.name} :
                  /\ Len(Get(name)'.contents) = Len(call.file.Contents)
                  /\ Len(hist) = 1 =>
                        Get(name)' = Found(call.file.Contents)
         ]_vars
    /\ (call.pc = "loop") ~> (call.pc = "idle")

\* the second Insert has read both bytes of a source that has not yet
\* signalled end-of-data
C16_LateEnd ==
    /\ call.pc = "loop"
    /\ call.file.Kind = "late"
    /\ Len(hist) = 2
    /\ Len(call.file.Contents) = 2
    /\ call.length = 2

\* C17: source failure is distinguishable. When the source fails after
\* yielding part of its content, Insert does not index the name with the
\* truncated content as if the insert had completed.
C17_FailureNotIndexed ==
    [][(call.pc = "loop" /\ call.file.Kind = "broken" /\ call'.pc = "idle")
         => ~(/\ call.name \in DOMAIN lookup'
              /\ lookup'[call.name].length = call.file.Length)]_vars

(***************************************************************************)
(* Search: the body returns an empty map whatever it is given.             *)
(***************************************************************************)
Search(pcontents) == << >>

\* p is a prefix of s
IsPrefix(p, s) == Len(p) <= Len(s) /\ SubSeq(s, 1, Len(p)) = p

\* C18: Search result. Search(prefix) returns an entry (name, content) for
\* every indexed name whose content begins with prefix and for no other
\* name.
C18_SearchFindsPrefixes ==
    call.pc = "idle" =>
        \A p \in Contents :
            /\ DOMAIN Search(p) =
                  {name \in DOMAIN lookup :
                      Get(name).ok /\ IsPrefix(p, Get(name).contents)}
            /\ \A name \in DOMAIN Search(p) :
                  Search(p)[name] = Get(name).contents

\* this step is the end of Insert: the loop is over, the name gets indexed
InsertEnds == call.pc = "loop" /\ call'.pc = "idle"

\* C19: final split only when ending inside existing content. At the end of
\* input Insert splits exactly when it stands strictly inside the value of a
\* node an existing file depends on; when the last byte went into a node no
\* other file depends on, there is no split and the terminal node's value
\* ends with the file's last byte.
C19_FinalSplit ==
    [][InsertEnds =>
         LET n == call.current
             inside == nodes[n].refs > 0 /\ call.cursor < Len(nodes[n].value)
         IN /\ (Len(nodes') > Len(nodes)) <=> inside
            /\ (nodes[n].refs = 0 /\ call.length > 0) =>
                  /\ nodes'[n].value # << >>
                  /\ Last(nodes'[n].value) =
                        call.file.Contents[call.length]]_vars

\* C20: a split corrects each affected path exactly once. When Insert splits
\* the node reached by its path p at a byte e, every indexed name whose path
\* has p as a prefix gets e inserted at index len(p) with its other keys kept
\* in order, and no other name's path changes.
C20_SplitCorrectsPaths ==
    [][InsertSplits =>
         LET p == PathSeq(arrays, call.path)
             e == nodes[call.current].value[call.cursor + 1]
         IN \A name \in DOMAIN lookup :
               LET was == PathOf(Cur, name)
                   is == PathSeq(arrays', lookup'[name].path)
               IN IF IsPrefix(p, was)
                  THEN is = SubSeq(was, 1, Len(p)) \o <<e>> \o
                            SubSeq(was, Len(p) + 1, Len(was))
                  ELSE is = was]_vars

\* this step of Insert makes the value of node n longer
Extends(n) ==
    /\ call.pc = "loop"
    /\ call' # call
    /\ n <= Len(nodes')
    /\ Len(nodes'[n].value) > Len(nodes[n].value)

\* C21: finalized nodes are never appended to. Insert appends a byte to a
\* node's value only when the node's refs is 0; once every operation issued
\* has completed, no node the recorded path of an indexed name visits has
\* refs 0; and no Insert makes longer the value of a node that the path of
\* an indexed name visits.
C21_FinalizedNotAppended ==
    /\ [][\A n \in 1..Len(nodes) : Extends(n) => nodes[n].refs = 0]_vars
    /\ [](Settled =>
            \A name \in DOMAIN lookup :
                \A n \in NodesOf(Cur, name) : nodes[n].refs > 0)
    /\ [][\A n \in 1..Len(nodes) :
             Extends(n) =>
                \A name \in DOMAIN lookup : n \notin NodesOf(Cur, name)]_vars

\* C22: child key is the child's first byte. In every reachable state, for
\* every node n of the graph and every key k of n.children, the child's
\* value is not empty and its first byte is k.
C22_ChildKeyIsFirstByte ==
    \A n \in Graph(nodes) :
        \A k \in DOMAIN nodes[n].children :
            LET value == nodes[nodes[n].children[k]].value
            IN value # << >> /\ value[1] = k

\* this step is the end of cleanup goroutine i, removing the terminal node
\* from its parent
Removes(i) ==
    /\ i <= Len(cleanups)
    /\ cleanups[i].k = cleanups[i].path.len
    /\ cleanups[i].n # Nil
    /\ cleanups[i].parent # Nil
    /\ nodes[cleanups[i].n].refs = 1
    /\ cleanups' = RemoveAt(cleanups, i)

\* the node at which the recorded path of a name ends, Nil if it dangles
Terminal(S, name) == NodeAt(S.nodes, PathOf(S, name), Len(PathOf(S, name)))

\* C23: heal step. After cleanup removes a terminal node from its parent, the
\* parent is merged exactly when it has exactly one remaining child and its
\* refs equals that child's refs; the merge makes the parent's value its old
\* value followed by the child's value and its children the child's
\* children, and then no indexed name's path ends at the parent; otherwise
\* the parent's value and remaining children stay as they are.
C23_HealStep ==
    [][\A i \in 1..Len(cleanups) :
          Removes(i) =>
             LET parent == cleanups[i].parent
                 kids == Without(nodes[parent].children, cleanups[i].v)
                 only == kids[CHOOSE b \in DOMAIN kids : TRUE]
             IN IF /\ Cardinality(DOMAIN kids) = 1
                   /\ nodes[parent].refs = nodes[only].refs
                THEN /\ nodes'[parent].value =
                            nodes[parent].value \o nodes[only].value
                     /\ nodes'[parent].children = nodes[only].children
                     /\ \A name \in DOMAIN lookup :
                           Terminal(Cur, name) # parent
                ELSE /\ nodes'[parent].value = nodes[parent].value
                     /\ nodes'[parent].children = kids]_vars

(***************************************************************************)
(* SpecDetached: a store built by New whose caller then only deletes; the  *)
(* fair version adds that a started goroutine keeps being scheduled.       *)
(***************************************************************************)
NextDetached ==
    \/ Construct
    \/ InsertByte
    \/ InsertEnd
    \/ \E target \in Names : More /\ Delete(target) /\ UNCHANGED script
    \/ \E i \in 1..Len(cleanups) : CleanupStep(i)
    \/ \E i \in 1..Len(cleanups) : CleanupEnd(i)

SpecDetached == Init /\ [][NextDetached]_vars

SpecDetachedFair ==
    /\ SpecDetached
    /\ WF_vars(\E i \in 1..Len(cleanups) : CleanupStep(i))
    /\ WF_vars(\E i \in 1..Len(cleanups) : CleanupEnd(i))

\* how many times the loop of cleanup(path) stands on node n in store S
Passes(S, path, n) ==
    Cardinality({k \in 0..(Len(path) - 1) : NodeAt(S.nodes, path, k) = n})

\* C24: best-effort cleanup is detached. In a non-strict store a successful
\* Delete returns with the name removed from the path index whatever part
\* of its cleanup has run, no completion signal is ever sent, and under fair
\* scheduling the cleanup completes, having decremented the refs of every
\* node its walk passes once per pass and of no other node.
C24_DetachedCleanup ==
    /\ [](~strict => sendq = << >>)
    /\ []((hist # << >> /\ Last(hist).op = "Delete") =>
             Last(hist).name \notin DOMAIN lookup)
    /\ []((call.pc = "idle" /\ cleanups = << >> /\ hist # << >>
           /\ Last(hist).op = "Delete") =>
             /\ ~crashed
             /\ \A n \in 1..Len(nodes) :
                   nodes[n].refs = old.nodes[n].refs -
                       Passes(old, PathOf(old, Last(hist).name), n))
    /\ (cleanups # << >>) ~> (cleanups = << >> /\ ~crashed)

RECURSIVE Along(_, _, _)
\* the values of the nodes reached by the first k keys of p, the root's
\* value first, one after the other
Along(N, p, k) ==
    IF k = 0 THEN << >>
    ELSE Along(N, p, k - 1) \o N[NodeAt(N, p, k - 1)].value

\* C25: Insert loop invariant. After each byte Insert has processed, cursor
\* is at most the length of the current node's value, and the bytes consumed
\* so far are the root's value followed by the values of the nodes along the
\* path in progress, the current node's value cut to its first cursor bytes.
C25_InsertLoopInvariant ==
    call.pc = "loop" =>
        LET p == PathSeq(arrays, call.path)
            value == nodes[call.current].value
        IN /\ call.cursor <= Len(value)
           /\ NodeAt(nodes, p, Len(p)) = call.current
           /\ SubSeq(call.file.Contents, 1, call.length) =
                 Along(nodes, p, Len(p)) \o SubSeq(value, 1, call.cursor)

\* a successful Copy(target, name) as a function of the store
CopyFrom(S, target, name) ==
    LET w == CopyWalk(S.nodes, PathOf(S, target), 0, Root)
    IN [store |-> [nodes |-> w.nodes, arrays |-> S.arrays,
                   lookup |-> (name :> S.lookup[target]) @@ S.lookup],
        panic |-> w.panic]

\* C26: Copy onto an existing name. Copy(existing, new) with new indexed and
\* new # existing leaves the path index and every node's refs, value and
\* children as Delete(new) with its cleanup completed followed by
\* Copy(existing, new) does: what new's previous record held is released.
C26_CopyOntoExisting ==
    (/\ call.pc = "idle"
     /\ cleanups = << >>
     /\ hist # << >>
     /\ Last(hist).op = "Copy"
     /\ Last(hist).name \in DOMAIN old.lookup
     /\ ~DeleteFrom(old, Last(hist).name).panic
     /\ ~CopyFrom(DeleteFrom(old, Last(hist).name).store,
                  Last(hist).arg, Last(hist).name).panic) =>
        LET seq == CopyFrom(DeleteFrom(old, Last(hist).name).store,
                            Last(hist).arg, Last(hist).name).store
        IN /\ ~crashed
           /\ Shape(nodes, Root) = Shape(seq.nodes, Root)
           /\ Index(Cur) = Index(seq)

====
